---- MODULE Spec2Model ----
(***************************************************************************)
(* Model of ai_ethica.fairness.metrics.FairnessMetrics and of              *)
(* ai_ethica.bias.detector.BiasDetector.                                   *)
(*                                                                         *)
(* A FairnessMetrics object has no fields (__init__ is `pass`), so its     *)
(* part of the state is the caller's input vectors together with the       *)
(* outcome of the last call.  A BiasDetector has the field bias_reports;   *)
(* its caller holds the DataFrame `data`.  Every calculator is an operator *)
(* computed the way the code computes it; every action is one call of a    *)
(* public method.  `threads` holds the frames of concurrent invocations of *)
(* FairnessMetrics; the AccountabilityTracker of accountability/tracker.py *)
(* is the lists decisions and incidents, its log files and the clock.      *)
(*                                                                         *)
(* Numbers are exact rationals [num, den] in lowest terms (den > 0); the   *)
(* float infinity of parity_ratio is the pair 1/0.  An exception that      *)
(* leaves a method is the record [raised |-> <Python exception class>].    *)
(***************************************************************************)
EXTENDS Integers, Sequences, FiniteSets, TLC

VARIABLES y_true, y_pred, protected_attributes, data, bias_reports, call, result,
          threads, decisions, incidents, log_files, clock, issued

\* the fields of an AccountabilityTracker, its log files, the clock and the
\* ids its callers were handed
trackerVars == <<decisions, incidents, log_files, clock, issued>>

vars == <<y_true, y_pred, protected_attributes, data, bias_reports, call, result,
          threads, trackerVars>>

-----------------------------------------------------------------------------
(* Bounds *)

\* longest vector of the aligned specification
MaxLen == 3

\* longest vector of the specifications with wider value or length domains
MaxWide == 2

\* most rows of a DataFrame that has no target column
MaxRows == 5

\* most reports a BiasDetector collects
MaxReports == 2

\* most rows of a DataFrame with a target column and no missing value
MaxLabelled == 4

\* most rows of a DataFrame with two attribute columns
MaxPair == 1

\* most records an AccountabilityTracker logs
MaxRecords == 2

\* the last tick (microsecond) of the clock
MaxClock == 1

-----------------------------------------------------------------------------
(* Rational arithmetic *)

Abs(x) == IF x < 0 THEN -x ELSE x

RECURSIVE GCD(_, _)
GCD(a, b) == IF b = 0 THEN a ELSE GCD(b, a % b)

\* the rational n/d (d > 0) in lowest terms
Rat(n, d) ==
    LET g == GCD(Abs(n), d)
    IN  [num |-> n \div g, den |-> d \div g]

Zero == [num |-> 0, den |-> 1]
One == [num |-> 1, den |-> 1]
Two == [num |-> 2, den |-> 1]
Infinity == [num |-> 1, den |-> 0]

RatAdd(a, b) == Rat(a.num * b.den + b.num * a.den, a.den * b.den)
RatSub(a, b) == Rat(a.num * b.den - b.num * a.den, a.den * b.den)
RatDiv(a, b) == Rat(a.num * b.den, a.den * b.num)
RatAbs(a) == [num |-> Abs(a.num), den |-> a.den]
RatLess(a, b) == a.num * b.den < b.num * a.den
RatLeq(a, b) == a.num * b.den <= b.num * a.den
IsInteger(a) == a.den = 1

\* the 5% threshold of every verdict
Threshold == Rat(1, 20)

-----------------------------------------------------------------------------
(* numpy and builtins *)

Raise(kind) == [raised |-> kind]
IsError(r) == "raised" \in DOMAIN r

Range(s) == {s[i] : i \in 1..Len(s)}

\* np.unique(protected_attr): the distinct values of the vector
unique(arr) == Range(arr)

\* the alphabetical order of the group values
AttrRank(v) == IF v = "A" THEN 1 ELSE 2

\* group_mask with the comparison `protected_attr >= group`
group_mask_geq(protected_attr, group) ==
    [i \in 1..Len(protected_attr) |-> AttrRank(protected_attr[i]) >= AttrRank(group)]

\* protected_attr == group: the boolean mask of one group
group_mask(protected_attr, group) ==
    [i \in 1..Len(protected_attr) |-> protected_attr[i] = group]

\* arr[mask] for a boolean mask of the same length as arr
RECURSIVE BoolIndex(_, _)
BoolIndex(arr, mask) ==
    IF Len(arr) = 0 THEN <<>>
    ELSE LET rest == BoolIndex(Tail(arr), Tail(mask))
         IN  IF Head(mask) THEN <<Head(arr)>> \o rest ELSE rest

RECURSIVE RatSum(_)
RatSum(s) == IF Len(s) = 0 THEN Zero ELSE RatAdd(Head(s), RatSum(Tail(s)))

\* arr.mean() of a non-empty array
mean(arr) == RatDiv(RatSum(arr), Rat(Len(arr), 1))

\* the largest and the smallest of a non-empty collection of rationals
RatMax(S) == CHOOSE x \in S : \A y \in S : RatLeq(y, x)
RatMin(S) == CHOOSE x \in S : \A y \in S : RatLeq(x, y)

\* max(rates, default=0): no exception on an empty sequence
PyMax_default(S) == IF S = {} THEN Zero ELSE RatMax(S)

\* the builtins max() and min(): ValueError on an empty sequence
PyMax(S) == IF S = {} THEN Raise("ValueError") ELSE RatMax(S)
PyMin(S) == IF S = {} THEN Raise("ValueError") ELSE RatMin(S)

\* number of positions i with a[i] = x and b[i] = y
CountPairs(a, b, x, y) ==
    Cardinality({i \in 1..Len(a) : a[i] = x /\ b[i] = y})

-----------------------------------------------------------------------------
(* sklearn.metrics.confusion_matrix, as metrics.py calls it (no labels=) *)

\* the elements of a finite set of rationals in ascending order
RECURSIVE SortedLabels(_)
SortedLabels(S) ==
    IF S = {} THEN <<>>
    ELSE <<RatMin(S)>> \o SortedLabels(S \ {RatMin(S)})

\* the matrix over the given labels: cm[i][j] counts the samples with true
\* label labels[i] and predicted label labels[j]
MatrixOver(group_y_true, group_y_pred, labels) ==
    [cm |-> [i \in 1..Len(labels) |-> [j \in 1..Len(labels) |->
        CountPairs(group_y_true, group_y_pred, labels[i], labels[j])]]]

\* confusion_matrix(y_true, y_pred): one row and one column per label that
\* occurs in either vector, in sorted order.  A vector with a non-integer
\* value is a "continuous" target and is rejected.
confusion_matrix(group_y_true, group_y_pred) ==
    IF \E v \in Range(group_y_true) \cup Range(group_y_pred) : ~IsInteger(v)
    THEN Raise("ValueError")
    ELSE MatrixOver(group_y_true, group_y_pred,
                    SortedLabels(Range(group_y_true) \cup Range(group_y_pred)))

\* ravel in column-major order (the matrix transposed)
ravel_transposed(m) ==
    [k \in 1..(Len(m.cm) * Len(m.cm)) |->
        m.cm[((k - 1) % Len(m.cm)) + 1][((k - 1) \div Len(m.cm)) + 1]]

\* cm.ravel(): the matrix in row-major order
ravel(m) ==
    [k \in 1..(Len(m.cm) * Len(m.cm)) |->
        m.cm[((k - 1) \div Len(m.cm)) + 1][((k - 1) % Len(m.cm)) + 1]]

\* tn, fp, fn, tp = <four values>: ValueError for any other number of values
Unpack(r) ==
    IF Len(r) # 4 THEN Raise("ValueError")
    ELSE [tn |-> r[1], fp |-> r[2], fn |-> r[3], tp |-> r[4]]

\* the unpacking of a matrix, or the exception confusion_matrix raised
UnpackMatrix(m) == IF IsError(m) THEN m ELSE Unpack(ravel(m))

\* tn, fp, fn, tp = confusion_matrix(...).ravel(): the unpacking needs
\* exactly four values, i.e. exactly two labels in the group
UnpackConfusion(group_y_true, group_y_pred) ==
    UnpackMatrix(confusion_matrix(group_y_true, group_y_pred))

\* tpr = tp / (tp + fn) if (tp + fn) > 0 else 0
TprOf(c) == IF c.tp + c.fn > 0 THEN Rat(c.tp, c.tp + c.fn) ELSE Zero

\* FprOf with the denominator `tn` instead of `fp + tn`
FprOf_over_tn(c) == IF c.tn > 0 THEN Rat(c.fp, c.tn) ELSE Zero

\* fpr = fp / (fp + tn) if (fp + tn) > 0 else 0
FprOf(c) == IF c.fp + c.tn > 0 THEN Rat(c.fp, c.fp + c.tn) ELSE Zero

-----------------------------------------------------------------------------
(* The four calculators.  Each returns the dict of the code as a record, or *)
(* the exception that leaves the method.  A group's key str(group) is the   *)
(* group value itself: the values of one numpy array have distinct strings. *)
(* Each calculator is written as the stages of its body, a stage receiving  *)
(* the locals computed so far.                                               *)

\* the values of a dict, as the collection max() and min() range over
Values(f) == {f[k] : k \in DOMAIN f}

\* Indexing arr[group_mask] raises IndexError when the boolean mask and the
\* array differ in length; it happens in the first iteration of the loop
\* over the groups, so not when there is no group at all.
MaskMismatch(arr, protected_attr) ==
    /\ unique(protected_attr) # {}
    /\ Len(arr) # Len(protected_attr)

\* ParityResult with the verdict `max_rate - min_rate <= 0.05`
ParityResult_leq(positive_rates, max_rate, min_rate) ==
    IF IsError(max_rate) THEN max_rate
    ELSE IF IsError(min_rate) THEN min_rate
    ELSE [positive_rates |-> positive_rates,
          parity_ratio |-> IF RatLess(Zero, min_rate)
                           THEN RatDiv(max_rate, min_rate) ELSE Infinity,
          violation |-> RatSub(max_rate, min_rate),
          is_fair |-> RatLeq(RatSub(max_rate, min_rate), Threshold)]

\* ParityResult with the ratio guarded by `max_rate > 0`
ParityResult_max_guard(positive_rates, max_rate, min_rate) ==
    IF IsError(max_rate) THEN max_rate
    ELSE IF IsError(min_rate) THEN min_rate
    ELSE [positive_rates |-> positive_rates,
          parity_ratio |-> IF RatLess(Zero, max_rate) /\ RatLess(Zero, min_rate)
                           THEN RatDiv(max_rate, min_rate)
                           ELSE IF RatLess(Zero, max_rate) THEN Infinity ELSE One,
          violation |-> RatSub(max_rate, min_rate),
          is_fair |-> RatLess(RatSub(max_rate, min_rate), Threshold)]

\* demographic_parity from max_rate on: the returned dict, unless max() or
\* min() raised
ParityResult(positive_rates, max_rate, min_rate) ==
    IF IsError(max_rate) THEN max_rate
    ELSE IF IsError(min_rate) THEN min_rate
    ELSE [positive_rates |-> positive_rates,
          parity_ratio |-> IF RatLess(Zero, min_rate)
                           THEN RatDiv(max_rate, min_rate) ELSE Infinity,
          violation |-> RatSub(max_rate, min_rate),
          is_fair |-> RatLess(RatSub(max_rate, min_rate), Threshold)]

\* demographic_parity after the loop over the groups
ParityOf(positive_rates) ==
    ParityResult(positive_rates,
                 PyMax(Values(positive_rates)), PyMin(Values(positive_rates)))

demographic_parity(pred, protected_attr) ==
    IF MaskMismatch(pred, protected_attr) THEN Raise("IndexError")
    ELSE ParityOf([group \in unique(protected_attr) |->
            mean(BoolIndex(pred, group_mask(protected_attr, group)))])

\* the confusion counts of one group, or the exception raised for it
GroupConfusion(true, pred, protected_attr, group) ==
    UnpackConfusion(BoolIndex(true, group_mask(protected_attr, group)),
                    BoolIndex(pred, group_mask(protected_attr, group)))

\* the confusion counts of every group
Confusions(true, pred, protected_attr) ==
    [group \in unique(protected_attr) |->
        GroupConfusion(true, pred, protected_attr, group)]

\* OddsRecord with the verdict `tpr_violation < 0.05 or fpr_violation < 0.05`
OddsRecord_or(group_metrics, tpr_violation, fpr_violation) ==
    [group_metrics |-> group_metrics,
     tpr_violation |-> tpr_violation,
     fpr_violation |-> fpr_violation,
     max_tpr_violation |-> tpr_violation,
     max_fpr_violation |-> fpr_violation,
     is_fair |-> \/ RatLess(tpr_violation, Threshold)
                 \/ RatLess(fpr_violation, Threshold)]

\* the dict equalized_odds returns
OddsRecord(group_metrics, tpr_violation, fpr_violation) ==
    [group_metrics |-> group_metrics,
     tpr_violation |-> tpr_violation,
     fpr_violation |-> fpr_violation,
     max_tpr_violation |-> tpr_violation,
     max_fpr_violation |-> fpr_violation,
     is_fair |-> /\ RatLess(tpr_violation, Threshold)
                 /\ RatLess(fpr_violation, Threshold)]

\* tpr_violation = max(tprs) - min(tprs); fpr_violation likewise
OddsViolations(group_metrics, max_tpr, min_tpr, max_fpr, min_fpr) ==
    IF IsError(max_tpr) THEN max_tpr
    ELSE IF IsError(min_tpr) THEN min_tpr
    ELSE IF IsError(max_fpr) THEN max_fpr
    ELSE IF IsError(min_fpr) THEN min_fpr
    ELSE OddsRecord(group_metrics,
                    RatSub(max_tpr, min_tpr), RatSub(max_fpr, min_fpr))

\* equalized_odds after the loop over the groups
OddsOf(group_metrics) ==
    OddsViolations(group_metrics,
        PyMax({group_metrics[g].tpr : g \in DOMAIN group_metrics}),
        PyMin({group_metrics[g].tpr : g \in DOMAIN group_metrics}),
        PyMax({group_metrics[g].fpr : g \in DOMAIN group_metrics}),
        PyMin({group_metrics[g].fpr : g \in DOMAIN group_metrics}))

\* the loop of equalized_odds, given the confusion counts of the groups
OddsLoop(conf) ==
    IF \E g \in DOMAIN conf : IsError(conf[g]) THEN Raise("ValueError")
    ELSE OddsOf([group \in DOMAIN conf |->
            [tpr |-> TprOf(conf[group]), fpr |-> FprOf(conf[group]),
             tn |-> conf[group].tn, fp |-> conf[group].fp,
             fn |-> conf[group].fn, tp |-> conf[group].tp]])

equalized_odds(true, pred, protected_attr) ==
    IF MaskMismatch(true, protected_attr) \/ MaskMismatch(pred, protected_attr)
    THEN Raise("IndexError")
    ELSE OddsLoop(Confusions(true, pred, protected_attr))

\* OpportunityResult with the violation `min_tpr - max_tpr`
OpportunityResult_swapped(tprs, max_tpr, min_tpr) ==
    IF IsError(max_tpr) THEN max_tpr
    ELSE IF IsError(min_tpr) THEN min_tpr
    ELSE [tprs |-> tprs,
          violation |-> RatSub(min_tpr, max_tpr),
          is_fair |-> RatLess(RatSub(min_tpr, max_tpr), Threshold)]

\* equal_opportunity from max_tpr on
OpportunityResult(tprs, max_tpr, min_tpr) ==
    IF IsError(max_tpr) THEN max_tpr
    ELSE IF IsError(min_tpr) THEN min_tpr
    ELSE [tprs |-> tprs,
          violation |-> RatSub(max_tpr, min_tpr),
          is_fair |-> RatLess(RatSub(max_tpr, min_tpr), Threshold)]

\* equal_opportunity after the loop over the groups
OpportunityOf(tprs) ==
    OpportunityResult(tprs, PyMax(Values(tprs)), PyMin(Values(tprs)))

\* the loop of equal_opportunity, given the confusion counts of the groups
OpportunityLoop(conf) ==
    IF \E g \in DOMAIN conf : IsError(conf[g]) THEN Raise("ValueError")
    ELSE OpportunityOf([group \in DOMAIN conf |-> TprOf(conf[group])])

equal_opportunity(true, pred, protected_attr) ==
    IF MaskMismatch(true, protected_attr) \/ MaskMismatch(pred, protected_attr)
    THEN Raise("IndexError")
    ELSE OpportunityLoop(Confusions(true, pred, protected_attr))

\* one group's entry of calibration_metrics
GroupCalibration(expected_rate, actual_rate) ==
    [expected_positive_rate |-> expected_rate,
     actual_positive_rate |-> actual_rate,
     calibration_error |-> RatAbs(RatSub(expected_rate, actual_rate))]

\* CalibrationResult with the verdict `max_error <= 0.05`
CalibrationResult_leq(calibration_metrics, max_error) ==
    IF IsError(max_error) THEN max_error
    ELSE [group_calibration |-> calibration_metrics,
          max_calibration_error |-> max_error,
          is_calibrated |-> RatLeq(max_error, Threshold)]

\* calibration from max_error on
CalibrationResult(calibration_metrics, max_error) ==
    IF IsError(max_error) THEN max_error
    ELSE [group_calibration |-> calibration_metrics,
          max_calibration_error |-> max_error,
          is_calibrated |-> RatLess(max_error, Threshold)]

\* calibration after the loop over the groups
CalibrationOf(calibration_metrics) ==
    CalibrationResult(calibration_metrics,
        PyMax({calibration_metrics[g].calibration_error :
                  g \in DOMAIN calibration_metrics}))

calibration(true, pred_proba, protected_attr) ==
    IF MaskMismatch(true, protected_attr)
       \/ MaskMismatch(pred_proba, protected_attr)
    THEN Raise("IndexError")
    ELSE CalibrationOf([group \in unique(protected_attr) |->
            GroupCalibration(
                mean(BoolIndex(pred_proba, group_mask(protected_attr, group))),
                mean(BoolIndex(true, group_mask(protected_attr, group))))])

-----------------------------------------------------------------------------
(* evaluate *)

MetricNames ==
    {"demographic_parity", "equalized_odds", "equal_opportunity", "calibration"}

\* the argument metrics=None
None == {"None"}

\* Calculate with equal_opportunity given (pred, true) instead of (true, pred)
Calculate_swapped(m, true, pred, attr_values) ==
    CASE m = "demographic_parity" -> demographic_parity(pred, attr_values)
      [] m = "equalized_odds" -> equalized_odds(true, pred, attr_values)
      [] m = "equal_opportunity" -> equal_opportunity(pred, true, attr_values)
      [] m = "calibration" -> calibration(true, pred, attr_values)

\* the call evaluate makes for one metric name
Calculate(m, true, pred, attr_values) ==
    CASE m = "demographic_parity" -> demographic_parity(pred, attr_values)
      [] m = "equalized_odds" -> equalized_odds(true, pred, attr_values)
      [] m = "equal_opportunity" -> equal_opportunity(true, pred, attr_values)
      [] m = "calibration" -> calibration(true, pred, attr_values)

\* The requested calculators are called in the fixed order of the four `if`
\* statements and the first exception leaves evaluate; otherwise the
\* outcomes are attr_results.
FirstErrorOr(outcome) ==
    IF "demographic_parity" \in DOMAIN outcome
          /\ IsError(outcome["demographic_parity"])
    THEN outcome["demographic_parity"]
    ELSE IF "equalized_odds" \in DOMAIN outcome
          /\ IsError(outcome["equalized_odds"])
    THEN outcome["equalized_odds"]
    ELSE IF "equal_opportunity" \in DOMAIN outcome
          /\ IsError(outcome["equal_opportunity"])
    THEN outcome["equal_opportunity"]
    ELSE IF "calibration" \in DOMAIN outcome /\ IsError(outcome["calibration"])
    THEN outcome["calibration"]
    ELSE outcome

\* one iteration of the loop over the attributes
attr_results(true, pred, attr_values, metrics) ==
    FirstErrorOr([m \in metrics \cap MetricNames |->
                     Calculate(m, true, pred, attr_values)])

\* the smallest element of a non-empty set of indices
First(K) == CHOOSE k \in K : \A j \in K : k <= j

\* the result of the loop over the attributes: the first exception, or the
\* dict results (per_attr[k] belongs to protected_dict[k])
CollectResults(protected_dict, per_attr) ==
    IF \E k \in DOMAIN per_attr : IsError(per_attr[k])
    THEN per_attr[First({k \in DOMAIN per_attr : IsError(per_attr[k])})]
    ELSE [results |->
             [name \in {protected_dict[k].name : k \in DOMAIN protected_dict} |->
                 per_attr[CHOOSE j \in DOMAIN protected_dict :
                              protected_dict[j].name = name]]]

\* if metrics is None: metrics = [all four]
MetricsOrDefault(metrics_arg) ==
    IF metrics_arg = None THEN MetricNames ELSE metrics_arg

\* protected_attributes is the dict in insertion order: a sequence of
\* [name, values] with distinct names.
evaluate(true, pred, protected_dict, metrics_arg) ==
    CollectResults(protected_dict,
        [k \in DOMAIN protected_dict |->
            attr_results(true, pred, protected_dict[k].values,
                         MetricsOrDefault(metrics_arg))])

-----------------------------------------------------------------------------
(* pandas, as detector.py uses it *)

\* a missing value (NaN, None) in a column of group values
NA == "nan"

\* the float nan
NaN == [num |-> 0, den |-> 0]

\* the Python value None where a number is expected
PyNone == [none |-> TRUE]

\* raise kind(message)
RaiseMessage(kind, message) == [raised |-> kind, message |-> message]

\* a DataFrame of n rows; columns maps each column name to its n values
DataFrame(n, columns) == [type |-> "DataFrame", index |-> n, columns |-> columns]

\* an argument that is not a DataFrame
NotADataFrame == [type |-> "dict"]

\* the caller of FairnessMetrics holds no DataFrame
NoData == [type |-> "NoneType"]

\* Series.value_counts(): the number of rows per value, missing values
\* dropped (dropna=True is the default)
value_counts(column) ==
    [v \in Range(column) \ {NA} |->
        Cardinality({i \in 1..Len(column) : column[i] = v})]

\* value_counts / total
Proportions(counts, total) ==
    [v \in DOMAIN counts |-> Rat(counts[v], total)]

\* Series.max() and Series.min(): nan for an empty Series
SeriesMax(series) ==
    IF DOMAIN series = {} THEN NaN ELSE RatMax(Values(series))
SeriesMin(series) ==
    IF DOMAIN series = {} THEN NaN ELSE RatMin(Values(series))

\* Series.unique(): the distinct values, the missing value included
SeriesUnique(column) == Range(column)

\* the rows selected by data[attribute] == group_value: a missing value
\* equals nothing, itself included
GroupRows(column, group_value) ==
    {i \in 1..Len(column) : group_value # NA /\ column[i] = group_value}

-----------------------------------------------------------------------------
(* BiasDetector *)

\* the limit of is_balanced and of the label-bias recommendation
RatioLimit == Rat(3, 2)

\* RepresentationResult with the verdict `max_prop / min_prop <= 1.5`
RepresentationResult_leq(max_prop, min_prop) ==
    [max_proportion |-> max_prop,
     min_proportion |-> min_prop,
     disparity_ratio |-> IF RatLess(Zero, min_prop)
                         THEN RatDiv(max_prop, min_prop) ELSE Infinity,
     is_balanced |-> IF RatLess(Zero, min_prop)
                     THEN RatLeq(RatDiv(max_prop, min_prop), RatioLimit)
                     ELSE FALSE]

\* _calculate_representation_bias from max_prop and min_prop on
RepresentationResult(max_prop, min_prop) ==
    [max_proportion |-> max_prop,
     min_proportion |-> min_prop,
     disparity_ratio |-> IF RatLess(Zero, min_prop)
                         THEN RatDiv(max_prop, min_prop) ELSE Infinity,
     is_balanced |-> IF RatLess(Zero, min_prop)
                     THEN RatLess(RatDiv(max_prop, min_prop), RatioLimit)
                     ELSE FALSE]

\* RepresentationOf with max_prop the proportion of the first group in
\* alphabetical order
RepresentationOf_first(proportions) ==
    RepresentationResult(
        IF DOMAIN proportions = {} THEN NaN
        ELSE proportions[CHOOSE v \in DOMAIN proportions :
                            \A w \in DOMAIN proportions : AttrRank(v) <= AttrRank(w)],
        SeriesMin(proportions))

\* _calculate_representation_bias from proportions on
RepresentationOf(proportions) ==
    RepresentationResult(SeriesMax(proportions), SeriesMin(proportions))

calculate_representation_bias(counts, total) ==
    RepresentationOf(Proportions(counts, total))

\* (group_data[target_column] == 1).mean(), the target column being of an
\* integer dtype
PositiveRate(target, rows) ==
    Rat(Cardinality({i \in rows : target[i] = 1}), Cardinality(rows))

\* label_bias[str(group_value)] for a group of at least one row
LabelGroup(target, rows) ==
    [group_size |-> Cardinality(rows),
     positive_rate |-> PositiveRate(target, rows),
     mean_target |-> PyNone]

\* the loop over data[attribute].unique(): an entry per value with rows
GroupLabelBias(column, target) ==
    [g \in {v \in SeriesUnique(column) : GroupRows(column, v) # {}} |->
        LabelGroup(target, GroupRows(column, g))]

\* the truth value of a number or None
Truthy(x) == x # PyNone /\ x # Zero

\* v.get("positive_rate") or v.get("mean_target", 0)
RateOf(v) == IF Truthy(v.positive_rate) THEN v.positive_rate ELSE v.mean_target

\* rates, after `rates = [r for r in rates if r is not None]`
Rates(label_bias) ==
    {RateOf(label_bias[g]) : g \in DOMAIN label_bias} \ {PyNone}

\* label_bias["disparity"]
Disparity(max_rate, min_rate) ==
    [max_rate |-> max_rate,
     min_rate |-> min_rate,
     disparity_ratio |-> IF RatLess(Zero, min_rate)
                         THEN RatDiv(max_rate, min_rate) ELSE Infinity]

\* _calculate_label_bias from rates on
LabelBiasResult(label_bias, rates) ==
    IF DOMAIN label_bias # {} /\ rates # {}
    THEN label_bias @@ ("disparity" :> Disparity(RatMax(rates), RatMin(rates)))
    ELSE label_bias

LabelBiasOf(label_bias) == LabelBiasResult(label_bias, Rates(label_bias))

calculate_label_bias(frame, attribute, target_column) ==
    LabelBiasOf(GroupLabelBias(frame.columns[attribute],
                               frame.columns[target_column]))

\* the argument target_column=None
NoTarget == "None"

\* _analyze_attribute: the analysis without label_bias
AnalysisOf(attribute, counts, total) ==
    [attribute |-> attribute,
     group_distribution |-> Proportions(counts, total),
     group_counts |-> counts,
     representation_bias |-> calculate_representation_bias(counts, total)]

analyze_attribute(frame, attribute, target_column) ==
    IF target_column # NoTarget /\ target_column \in DOMAIN frame.columns
    THEN AnalysisOf(attribute, value_counts(frame.columns[attribute]), frame.index)
            @@ [label_bias |-> calculate_label_bias(frame, attribute, target_column)]
    ELSE AnalysisOf(attribute, value_counts(frame.columns[attribute]), frame.index)

\* the names of a list in order, every name once, at the place of its first
\* occurrence
RECURSIVE KeysInOrder(_)
KeysInOrder(names) ==
    IF names = <<>> THEN <<>>
    ELSE LET front == KeysInOrder(SubSeq(names, 1, Len(names) - 1))
         IN  IF names[Len(names)] \in Range(front) THEN front
             ELSE Append(front, names[Len(names)])

\* ItemsOrder with the keys in alphabetical order
ItemsOrder_sorted(attrs, bias_metrics) ==
    IF DOMAIN bias_metrics = {"gender", "race"} THEN <<"gender", "race">>
    ELSE KeysInOrder(SelectSeq(attrs, LAMBDA a : a \in DOMAIN bias_metrics))

\* the keys of bias_metrics in insertion order: the loop of analyze stores
\* the attributes in the order of the list
ItemsOrder(attrs, bias_metrics) ==
    KeysInOrder(SelectSeq(attrs, LAMBDA a : a \in DOMAIN bias_metrics))

RepresentationMessage(attr) ==
    [text |-> "High representation disparity detected", attr |-> attr]

LabelMessage(attr) == [text |-> "Label bias detected", attr |-> attr]

NoBiasMessage == [text |-> "No significant bias detected. Continue monitoring."]

\* AttrRecommendations with the representation rule `disparity_ratio >= 2.0`
AttrRecommendations_geq(attr, metrics) ==
    (IF RatLeq(Two, metrics.representation_bias.disparity_ratio)
     THEN <<RepresentationMessage(attr)>> ELSE <<>>)
    \o (IF "label_bias" \in DOMAIN metrics
            /\ "disparity" \in DOMAIN metrics.label_bias
            /\ RatLess(RatioLimit, metrics.label_bias["disparity"].disparity_ratio)
        THEN <<LabelMessage(attr)>> ELSE <<>>)

\* the body of the loop of _generate_recommendations
AttrRecommendations(attr, metrics) ==
    (IF RatLess(Two, metrics.representation_bias.disparity_ratio)
     THEN <<RepresentationMessage(attr)>> ELSE <<>>)
    \o (IF "label_bias" \in DOMAIN metrics
            /\ "disparity" \in DOMAIN metrics.label_bias
            /\ RatLess(RatioLimit, metrics.label_bias["disparity"].disparity_ratio)
        THEN <<LabelMessage(attr)>> ELSE <<>>)

RECURSIVE Recommend(_, _)
Recommend(keys, bias_metrics) ==
    IF keys = <<>> THEN <<>>
    ELSE AttrRecommendations(Head(keys), bias_metrics[Head(keys)])
            \o Recommend(Tail(keys), bias_metrics)

\* if not recommendations: the one default message
OrDefault(recommendations) ==
    IF recommendations = <<>> THEN <<NoBiasMessage>> ELSE recommendations

\* bias_metrics.items() iterates in the order keys
generate_recommendations(keys, bias_metrics) ==
    OrDefault(Recommend(keys, bias_metrics))

\* the report once the loop over the attributes has ended
ReportOf(frame, attrs, bias_metrics) ==
    [dataset_size |-> frame.index,
     protected_attributes |-> attrs,
     bias_metrics |-> bias_metrics,
     recommendations |-> generate_recommendations(ItemsOrder(attrs, bias_metrics),
                                                 bias_metrics)]

\* analyze with the loop skipping an attribute that is not a column
analyze_skipping(frame, attrs, target_column) ==
    IF frame.type # "DataFrame"
    THEN RaiseMessage("TypeError", "data must be a pandas DataFrame")
    ELSE IF attrs = <<>>
    THEN RaiseMessage("ValueError", "protected_attributes cannot be empty")
    ELSE ReportOf(frame, attrs,
            [a \in Range(attrs) \cap DOMAIN frame.columns |->
                analyze_attribute(frame, a, target_column)])

\* analyze with the checks in the order of the code; the loop raises at the
\* first attribute that is not a column, before anything is stored
analyze(frame, attrs, target_column) ==
    IF frame.type # "DataFrame"
    THEN RaiseMessage("TypeError", "data must be a pandas DataFrame")
    ELSE IF attrs = <<>>
    THEN RaiseMessage("ValueError", "protected_attributes cannot be empty")
    ELSE IF \E k \in 1..Len(attrs) : attrs[k] \notin DOMAIN frame.columns
    THEN RaiseMessage("ValueError", "Protected attribute not found in dataset")
    ELSE ReportOf(frame, attrs,
            [a \in Range(attrs) |-> analyze_attribute(frame, a, target_column)])

\* group_perf[str(group_value)] for a group of at least one row
GroupPerformance(predictions, y, rows) ==
    [size |-> Cardinality(rows),
     accuracy |-> Rat(Cardinality({i \in rows : predictions[i] = y[i]}),
                      Cardinality(rows)),
     positive_prediction_rate |->
         IF Cardinality({predictions[i] : i \in rows}) > 1
         THEN Rat(Cardinality({i \in rows : predictions[i] = One}),
                  Cardinality(rows))
         ELSE PyNone]

\* the loop over X[attr].unique(): an entry per value with rows
GroupPerf(column, predictions, y) ==
    [g \in {v \in SeriesUnique(column) : GroupRows(column, v) # {}} |->
        GroupPerformance(predictions, y, GroupRows(column, g))]

\* predictions is model.predict(X); an attribute that is not a column of X
\* is passed over by `continue`
detect_model_bias(predictions, X, y, attrs) ==
    [model_predictions |-> predictions,
     protected_attributes |-> attrs,
     group_performance |->
         [a \in Range(attrs) \cap DOMAIN X.columns |->
             GroupPerf(X.columns[a], predictions, y)]]

-----------------------------------------------------------------------------
(* AccountabilityTracker.  Time is the number of the current microsecond,  *)
(* the resolution of datetime.now(), of strftime's %f and of isoformat().  *)

\* an optional argument left at None
NoArg == "None"

\* a datetime object
Datetime(t) == [tick |-> t]

\* datetime.isoformat() and datetime.fromisoformat()
isoformat(d) == [iso |-> d.tick]
fromisoformat(text) == [tick |-> text.iso]

\* f"decision_{now.strftime('%Y%m%d_%H%M%S_%f')}" and its incident twin
DecisionId(d) == [prefix |-> "decision", stamp |-> d.tick]
IncidentId(d) == [prefix |-> "incident", stamp |-> d.tick]

\* json.dumps(record) + '\n'
JsonLine(record) == [json |-> record]

\* the truth value of an optional string argument
Supplied(x) == x # NoArg /\ x # ""

\* pd.DataFrame(records): one row per record, in order
FrameOfRecords(records) ==
    [type |-> "DataFrame", index |-> Len(records), records |-> records]

\* the dicts of log_decision and log_incident; input_data and prediction
\* are values that str() is applied to
Decision(id_time, timestamp_time, model_id) ==
    [decision_id |-> DecisionId(id_time),
     timestamp |-> isoformat(timestamp_time),
     model_id |-> model_id,
     input_data |-> "x",
     prediction |-> "1",
     confidence |-> PyNone,
     metadata |-> <<>>]

Incident(id_time, timestamp_time, severity) ==
    [incident_id |-> IncidentId(id_time),
     timestamp |-> isoformat(timestamp_time),
     incident_type |-> "bias_detected",
     description |-> "d",
     severity |-> severity,
     model_id |-> NoArg,
     decision_id |-> NoArg,
     metadata |-> <<>>,
     status |-> "open"]

\* a list after insert(0, record)
Logged_front(records, record) == <<record>> \o records

\* self.decisions.append(decision) and self.incidents.append(incident)
Logged(records, record) == Append(records, record)

\* the three filters of get_audit_trail
ByModel(records, model_id) ==
    IF Supplied(model_id)
    THEN SelectSeq(records, LAMBDA d : d.model_id = model_id)
    ELSE records

FromDate(records, start_date) ==
    IF start_date # PyNone
    THEN SelectSeq(records,
             LAMBDA d : fromisoformat(d.timestamp).tick >= start_date.tick)
    ELSE records

ToDate(records, end_date) ==
    IF end_date # PyNone
    THEN SelectSeq(records,
             LAMBDA d : fromisoformat(d.timestamp).tick <= end_date.tick)
    ELSE records

get_audit_trail(records, model_id, start_date, end_date) ==
    FrameOfRecords(ToDate(FromDate(ByModel(records, model_id), start_date),
                          end_date))

\* the three filters of get_incidents
BySeverity(records, severity) ==
    IF Supplied(severity)
    THEN SelectSeq(records, LAMBDA i : i.severity = severity)
    ELSE records

ByStatus(records, status) ==
    IF Supplied(status)
    THEN SelectSeq(records, LAMBDA i : i.status = status)
    ELSE records

get_incidents(records, severity, status, model_id) ==
    FrameOfRecords(ByModel(ByStatus(BySeverity(records, severity), status),
                           model_id))

\* timedelta(days=30) in ticks: longer than every run of the model
Period == MaxClock + 1

\* incidents["severity"].value_counts().to_dict()
SeverityCounts(records) ==
    [v \in {records[i].severity : i \in 1..Len(records)} |->
        Cardinality({i \in 1..Len(records) : records[i].severity = v})]

\* if not report["recommendations"]: the one default message
NoActionOr(recommendations) ==
    IF recommendations = <<>>
    THEN <<[text |-> "No immediate action required"]>>
    ELSE recommendations

\* the recommendations of generate_report
ReportRecommendations(critical, open) ==
    NoActionOr(
        (IF critical > 0
         THEN <<[text |-> "Address critical incident(s) immediately", n |-> critical]>>
         ELSE <<>>)
        \o (IF open > 5
            THEN <<[text |-> "Review and resolve open incidents", n |-> open]>>
            ELSE <<>>))

\* generate_report from audit_trail and incidents on
ReportFrom(model_id, start_date, end_date, audit_trail, found) ==
    [report_period |-> [start |-> isoformat(start_date),
                        end |-> isoformat(end_date), days |-> 30],
     model_id |-> IF Supplied(model_id) THEN model_id ELSE "all_models",
     summary |-> [total_decisions |-> audit_trail.index,
                  total_incidents |-> found.index,
                  open_incidents |-> Len(ByStatus(found.records, "open")),
                  critical_incidents |-> Len(BySeverity(found.records, "critical"))],
     incidents_by_severity |-> SeverityCounts(found.records),
     recommendations |->
         ReportRecommendations(Len(BySeverity(found.records, "critical")),
                               Len(ByStatus(found.records, "open")))]

generate_report(decision_list, incident_list, model_id, end_date) ==
    ReportFrom(model_id, Datetime(end_date.tick - Period), end_date,
        get_audit_trail(decision_list, model_id,
                        Datetime(end_date.tick - Period), end_date),
        get_incidents(incident_list, NoArg, NoArg, model_id))

-----------------------------------------------------------------------------
(* State machine: a caller holding its vectors calls the public methods *)

AttrValues == {"A", "B"}

\* label values: the binary ones and one that is not
BinaryLabels == {Zero, One}
Labels == {Zero, One, Two}

\* predicted probabilities: 0, 1 and the value of the 5% threshold
Probabilities == {Zero, Rat(1, 20), One}

AttrName == "gender"

\* the metrics arguments a caller passes to evaluate
MetricsArgs == {None} \cup SUBSET MetricNames

Pending == [pending |-> TRUE]
Idle == [method |-> "none"]

\* the callers of the concurrent specification
Threads == {1, 2}

\* the frame of a thread that is in no invocation
NoFrame ==
    [pc |-> "idle", method |-> "none", metrics |-> None, attr |-> 0, k |-> 0,
     results |-> <<>>, outcome |-> Pending]

NoThreads == [t \in Threads |-> NoFrame]

\* AccountabilityTracker.__init__: both lists empty; the log directory holds
\* no line of this tracker
NewTracker ==
    /\ decisions = <<>>
    /\ incidents = <<>>
    /\ log_files = [decisions |-> <<>>, incidents |-> <<>>]
    /\ issued = <<>>

\* one protected attribute over the vector a
OneAttribute(a) == <<[name |-> AttrName, values |-> a]>>

\* aligned binary vectors of one length
Init ==
    \E n \in 0..MaxLen :
        /\ y_true \in [1..n -> BinaryLabels]
        /\ y_pred \in [1..n -> BinaryLabels]
        /\ \E a \in [1..n -> AttrValues] : protected_attributes = OneAttribute(a)
        /\ data = NoData
        /\ bias_reports = <<>>
        /\ threads = NoThreads
        /\ NewTracker
        /\ clock = 0
        /\ call = Idle
        /\ result = Pending

\* aligned vectors whose labels and predictions need not be binary
InitLabels ==
    \E n \in 0..MaxWide :
        /\ y_true \in [1..n -> Labels]
        /\ y_pred \in [1..n -> Labels]
        /\ \E a \in [1..n -> AttrValues] : protected_attributes = OneAttribute(a)
        /\ data = NoData
        /\ bias_reports = <<>>
        /\ threads = NoThreads
        /\ NewTracker
        /\ clock = 0
        /\ call = Idle
        /\ result = Pending

\* aligned vectors, binary labels, predictions that are probabilities
InitProba ==
    \E n \in 0..MaxWide :
        /\ y_true \in [1..n -> BinaryLabels]
        /\ y_pred \in [1..n -> Probabilities]
        /\ \E a \in [1..n -> AttrValues] : protected_attributes = OneAttribute(a)
        /\ data = NoData
        /\ bias_reports = <<>>
        /\ threads = NoThreads
        /\ NewTracker
        /\ clock = 0
        /\ call = Idle
        /\ result = Pending

\* binary vectors of three independent lengths
InitLengths ==
    \E nt \in 0..MaxWide, np \in 0..MaxWide, na \in 0..MaxWide :
        /\ y_true \in [1..nt -> BinaryLabels]
        /\ y_pred \in [1..np -> BinaryLabels]
        /\ \E a \in [1..na -> AttrValues] : protected_attributes = OneAttribute(a)
        /\ data = NoData
        /\ bias_reports = <<>>
        /\ threads = NoThreads
        /\ NewTracker
        /\ clock = 0
        /\ call = Idle
        /\ result = Pending

\* the dicts of up to two protected attributes over vectors of length n
AttributeDicts(n) ==
    {<<>>}
    \cup {OneAttribute(a) : a \in [1..n -> AttrValues]}
    \cup {OneAttribute(a) \o <<[name |-> "race", values |-> b]>> :
             a \in [1..n -> AttrValues], b \in [1..n -> AttrValues]}

\* aligned binary vectors and a dict of zero, one or two attributes
InitAttributes ==
    \E n \in 0..MaxWide :
        /\ y_true \in [1..n -> BinaryLabels]
        /\ y_pred \in [1..n -> BinaryLabels]
        /\ protected_attributes \in AttributeDicts(n)
        /\ data = NoData
        /\ bias_reports = <<>>
        /\ threads = NoThreads
        /\ NewTracker
        /\ clock = 0
        /\ call = Idle
        /\ result = Pending

\* The caller is single-threaded and every method is synchronous: a call is
\* made when no result is outstanding, and Return hands the result over.
DemographicParity ==
    /\ call = Idle
    /\ \E k \in 1..Len(protected_attributes) :
        /\ call' = [method |-> "demographic_parity", attr |-> k]
        /\ result' = demographic_parity(y_pred, protected_attributes[k].values)
    /\ UNCHANGED <<y_true, y_pred, protected_attributes, data, bias_reports,
                 threads, trackerVars>>

EqualizedOdds ==
    /\ call = Idle
    /\ \E k \in 1..Len(protected_attributes) :
        /\ call' = [method |-> "equalized_odds", attr |-> k]
        /\ result' = equalized_odds(y_true, y_pred, protected_attributes[k].values)
    /\ UNCHANGED <<y_true, y_pred, protected_attributes, data, bias_reports,
                 threads, trackerVars>>

EqualOpportunity ==
    /\ call = Idle
    /\ \E k \in 1..Len(protected_attributes) :
        /\ call' = [method |-> "equal_opportunity", attr |-> k]
        /\ result' = equal_opportunity(y_true, y_pred, protected_attributes[k].values)
    /\ UNCHANGED <<y_true, y_pred, protected_attributes, data, bias_reports,
                 threads, trackerVars>>

Calibration ==
    /\ call = Idle
    /\ \E k \in 1..Len(protected_attributes) :
        /\ call' = [method |-> "calibration", attr |-> k]
        /\ result' = calibration(y_true, y_pred, protected_attributes[k].values)
    /\ UNCHANGED <<y_true, y_pred, protected_attributes, data, bias_reports,
                 threads, trackerVars>>

Evaluate ==
    /\ call = Idle
    /\ \E metrics \in MetricsArgs :
        /\ call' = [method |-> "evaluate", metrics |-> metrics]
        /\ result' = evaluate(y_true, y_pred, protected_attributes, metrics)
    /\ UNCHANGED <<y_true, y_pred, protected_attributes, data, bias_reports,
                 threads, trackerVars>>

Return ==
    /\ call # Idle
    /\ call' = Idle
    /\ result' = Pending
    /\ UNCHANGED <<y_true, y_pred, protected_attributes, data, bias_reports,
                 threads, trackerVars>>

Next ==
    \/ DemographicParity
    \/ EqualizedOdds
    \/ EqualOpportunity
    \/ Calibration
    \/ Evaluate
    \/ Return

Spec == Init /\ [][Next]_vars
SpecLabels == InitLabels /\ [][Next]_vars
SpecProba == InitProba /\ [][Next]_vars
SpecLengths == InitLengths /\ [][Next]_vars
SpecAttributes == InitAttributes /\ [][Next]_vars

-----------------------------------------------------------------------------
(* State machine: two threads call one FairnessMetrics object over shared  *)
(* vectors.  The object has no field; `results` and the loop position are  *)
(* locals of the invocation, so each thread owns them in its frame.  An    *)
(* iteration of the loop of evaluate is one step; a calculator called     *)
(* directly is one step.                                                   *)

\* the metrics arguments of the concurrent callers
ThreadMetrics ==
    {None, {"demographic_parity"}, {"demographic_parity", "calibration"}}

\* every thread is handed the one frame of an object attribute
Locals_shared(t) == 1

\* the frame holding the locals of thread t: its own
Locals(t) == t

\* shared aligned binary vectors and a dict of up to two attributes
InitThreads ==
    \E n \in 0..MaxPair :
        /\ y_true \in [1..n -> BinaryLabels]
        /\ y_pred \in [1..n -> BinaryLabels]
        /\ protected_attributes \in AttributeDicts(n)
        /\ data = NoData
        /\ bias_reports = <<>>
        /\ threads = NoThreads
        /\ NewTracker
        /\ clock = 0
        /\ call = Idle
        /\ result = Pending

\* what a thread step leaves alone
ThreadFrame ==
    UNCHANGED <<y_true, y_pred, protected_attributes, data, bias_reports,
                call, result, trackerVars>>

\* thread t calls one of the four calculators for one attribute
InvokeCalculator(t) ==
    /\ threads[t].pc = "idle"
    /\ \E m \in MetricNames, k \in 1..Len(protected_attributes) :
        threads' = [threads EXCEPT ![t] =
            [NoFrame EXCEPT !.pc = "calculator", !.method = m, !.attr = k]]
    /\ ThreadFrame

\* the calculator runs and returns
RunCalculator(t) ==
    /\ threads[t].pc = "calculator"
    /\ threads' = [threads EXCEPT
           ![t].pc = "done",
           ![t].outcome = Calculate(threads[t].method, y_true, y_pred,
                              protected_attributes[threads[t].attr].values)]
    /\ ThreadFrame

\* thread t calls evaluate: results = {} and the loop starts
InvokeEvaluate(t) ==
    /\ threads[t].pc = "idle"
    /\ \E metrics \in ThreadMetrics :
        threads' = [threads EXCEPT
            ![t] = [NoFrame EXCEPT !.pc = "loop", !.method = "evaluate",
                                   !.metrics = metrics, !.k = 1],
            ![Locals(t)].results = <<>>]
    /\ ThreadFrame

\* one iteration of `for attr_name, attr_values in protected_dict.items()`:
\* an exception leaves evaluate, otherwise results[attr_name] is stored
Iterate(t) ==
    /\ threads[t].pc = "loop"
    /\ threads[t].k <= Len(protected_attributes)
    /\ LET attr == protected_attributes[threads[t].k]
           r == attr_results(y_true, y_pred, attr.values,
                             MetricsOrDefault(threads[t].metrics))
       IN  threads' =
               IF IsError(r)
               THEN [threads EXCEPT ![t].pc = "done", ![t].outcome = r]
               ELSE [threads EXCEPT
                        ![Locals(t)].results = (attr.name :> r) @@ @,
                        ![t].k = @ + 1]
    /\ ThreadFrame

\* the loop has ended: return results
EndLoop(t) ==
    /\ threads[t].pc = "loop"
    /\ threads[t].k > Len(protected_attributes)
    /\ threads' = [threads EXCEPT
           ![t].pc = "done",
           ![t].outcome = [results |-> threads[Locals(t)].results]]
    /\ ThreadFrame

\* the caller takes the outcome; the frame is gone
Finish(t) ==
    /\ threads[t].pc = "done"
    /\ threads' = [threads EXCEPT ![t] = NoFrame]
    /\ ThreadFrame

NextThreads ==
    \/ \E t \in Threads : InvokeCalculator(t)
    \/ \E t \in Threads : RunCalculator(t)
    \/ \E t \in Threads : InvokeEvaluate(t)
    \/ \E t \in Threads : Iterate(t)
    \/ \E t \in Threads : EndLoop(t)
    \/ \E t \in Threads : Finish(t)

SpecThreads == InitThreads /\ [][NextThreads]_vars

-----------------------------------------------------------------------------
(* State machine: a caller holding a DataFrame calls BiasDetector.analyze *)

\* group values of a protected attribute column, one of them missing
ColumnValues == AttrValues \cup {NA}

\* values of a binary target column
TargetValues == {0, 1}

\* the protected_attributes arguments: "gender" is a column of every
\* DataFrame, "race" of those with two attribute columns only
AttributeLists ==
    {<<>>, <<"gender">>, <<"race">>, <<"gender", "gender">>,
     <<"gender", "race">>, <<"race", "gender">>}

\* the target_column arguments
TargetArgs == {NoTarget, "target"}

\* DataFrames with the column gender and n rows
FramesWithoutTarget(n) ==
    {DataFrame(n, [gender |-> g]) : g \in [1..n -> ColumnValues]}

\* DataFrames with the columns gender and target and n rows
FramesWithTarget(n) ==
    {DataFrame(n, [gender |-> g, target |-> t]) :
        g \in [1..n -> ColumnValues], t \in [1..n -> TargetValues]}

\* a new BiasDetector (bias_reports = []) and the caller's data
InitBias ==
    /\ y_true = <<>>
    /\ y_pred = <<>>
    /\ protected_attributes = <<>>
    /\ \/ data = NotADataFrame
       \/ \E n \in 0..MaxRows : data \in FramesWithoutTarget(n)
       \/ \E n \in 0..MaxWide : data \in FramesWithTarget(n)
    /\ bias_reports = <<>>
    /\ threads = NoThreads
    /\ NewTracker
    /\ clock = 0
    /\ call = Idle
    /\ result = Pending

\* bias_reports after a call that appends whatever the call came to
Stored_always(reports, outcome) == Append(reports, outcome)

\* self.bias_reports.append(report) is the last statement before the
\* return: it is reached only when nothing was raised
Stored(reports, outcome) ==
    IF IsError(outcome) THEN reports ELSE Append(reports, outcome)

Analyze ==
    /\ call = Idle
    /\ Len(bias_reports) < MaxReports
    /\ \E attrs \in AttributeLists, target_column \in TargetArgs :
        /\ call' = [method |-> "analyze", protected_attributes |-> attrs,
                    target_column |-> target_column]
        /\ result' = analyze(data, attrs, target_column)
        /\ bias_reports' = Stored(bias_reports, result')
    /\ UNCHANGED <<y_true, y_pred, protected_attributes, data, threads, trackerVars>>

NextBias ==
    \/ Analyze
    \/ Return

SpecBias == InitBias /\ [][NextBias]_vars

\* DataFrames with the columns gender (no value missing) and target
FramesLabelled(n) ==
    {DataFrame(n, [gender |-> g, target |-> t]) :
        g \in [1..n -> AttrValues], t \in [1..n -> TargetValues]}

\* DataFrames with the attribute columns gender and race
FramesTwoAttributes(n) ==
    {DataFrame(n, [gender |-> g, race |-> r]) :
        g \in [1..n -> ColumnValues], r \in [1..n -> ColumnValues]}

\* a new BiasDetector and data on which the recommendation rules fire
InitRecommend ==
    /\ y_true = <<>>
    /\ y_pred = <<>>
    /\ protected_attributes = <<>>
    /\ \/ \E n \in 0..MaxLabelled : data \in FramesLabelled(n)
       \/ \E n \in 0..MaxPair : data \in FramesTwoAttributes(n)
    /\ bias_reports = <<>>
    /\ threads = NoThreads
    /\ NewTracker
    /\ clock = 0
    /\ call = Idle
    /\ result = Pending

SpecRecommend == InitRecommend /\ [][NextBias]_vars

\* a BiasDetector, the features X = data, the true labels y = y_true and a
\* model whose predict(X) is y_pred
InitModelBias ==
    \E n \in 0..MaxWide :
        /\ y_true \in [1..n -> BinaryLabels]
        /\ y_pred \in [1..n -> BinaryLabels]
        /\ protected_attributes = <<>>
        /\ data \in FramesWithoutTarget(n)
        /\ bias_reports = <<>>
        /\ threads = NoThreads
        /\ NewTracker
        /\ clock = 0
        /\ call = Idle
        /\ result = Pending

\* detect_model_bias returns its report and stores nothing
DetectModelBias ==
    /\ call = Idle
    /\ \E attrs \in AttributeLists :
        /\ call' = [method |-> "detect_model_bias", protected_attributes |-> attrs]
        /\ result' = detect_model_bias(y_pred, data, y_true, attrs)
    /\ UNCHANGED <<y_true, y_pred, protected_attributes, data, bias_reports,
                 threads, trackerVars>>

NextModelBias ==
    \/ DetectModelBias
    \/ Return

SpecModelBias == InitModelBias /\ [][NextModelBias]_vars

-----------------------------------------------------------------------------
(* State machine: callers of one AccountabilityTracker *)

ModelIds == {"m1", "m2"}
Severities == {"medium", "critical"}

\* the model_id filters of a query: left out, empty, or a model's id
ModelFilters == {NoArg, "", "m1"}

\* the start_date and end_date arguments of a query
DateArgs == {PyNone} \cup {Datetime(t) : t \in 0..MaxClock}

\* datetime.now() read when the clock last showed c: the same microsecond
\* or the next
Now(c) == {t \in {c, c + 1} : t <= MaxClock}

\* a write to the log file succeeds, or open() / write() raises OSError
WriteOutcomes == {"written", "OSError"}

\* a new tracker at time 0
InitTracker ==
    /\ y_true = <<>>
    /\ y_pred = <<>>
    /\ protected_attributes = <<>>
    /\ data = NoData
    /\ bias_reports = <<>>
    /\ threads = NoThreads
    /\ NewTracker
    /\ clock = 0
    /\ call = Idle
    /\ result = Pending

\* what a tracker call leaves alone
TrackerFrame ==
    UNCHANGED <<y_true, y_pred, protected_attributes, data, bias_reports, threads>>

\* log_decision: the id and the timestamp are two reads of the clock, the
\* name of the log file in _save_decision a third; the dict is appended
\* before _save_decision writes it, and the id is returned only when the
\* write did not raise
LogDecision ==
    /\ call = Idle
    /\ Len(decisions) + Len(incidents) < MaxRecords
    /\ \E model_id \in ModelIds, t1 \in Now(clock), outcome \in WriteOutcomes :
        \E t2 \in Now(t1) : \E t3 \in Now(t2) :
            LET decision == Decision(Datetime(t1), Datetime(t2), model_id)
            IN  /\ call' = [method |-> "log_decision", model_id |-> model_id]
                /\ decisions' = Logged(decisions, decision)
                /\ clock' = t3
                /\ IF outcome = "written"
                   THEN /\ log_files' = [log_files EXCEPT
                               !.decisions = Append(@, JsonLine(decision))]
                        /\ result' = decision.decision_id
                        /\ issued' = Append(issued, decision.decision_id)
                   ELSE /\ result' = Raise("OSError")
                        /\ UNCHANGED <<log_files, issued>>
    /\ UNCHANGED incidents
    /\ TrackerFrame

LogIncident ==
    /\ call = Idle
    /\ Len(decisions) + Len(incidents) < MaxRecords
    /\ \E severity \in Severities, t1 \in Now(clock), outcome \in WriteOutcomes :
        \E t2 \in Now(t1) : \E t3 \in Now(t2) :
            LET incident == Incident(Datetime(t1), Datetime(t2), severity)
            IN  /\ call' = [method |-> "log_incident", severity |-> severity]
                /\ incidents' = Logged(incidents, incident)
                /\ clock' = t3
                /\ IF outcome = "written"
                   THEN /\ log_files' = [log_files EXCEPT
                               !.incidents = Append(@, JsonLine(incident))]
                        /\ result' = incident.incident_id
                        /\ issued' = Append(issued, incident.incident_id)
                   ELSE /\ result' = Raise("OSError")
                        /\ UNCHANGED <<log_files, issued>>
    /\ UNCHANGED decisions
    /\ TrackerFrame

\* get_audit_trail works on self.decisions.copy()
GetAuditTrail ==
    /\ call = Idle
    /\ \E model_id \in ModelFilters, start_date \in DateArgs, end_date \in DateArgs :
        /\ call' = [method |-> "get_audit_trail", model_id |-> model_id,
                    start_date |-> start_date, end_date |-> end_date]
        /\ result' = get_audit_trail(decisions, model_id, start_date, end_date)
    /\ UNCHANGED trackerVars
    /\ TrackerFrame

\* get_incidents works on self.incidents.copy()
GetIncidents ==
    /\ call = Idle
    /\ \E severity \in {NoArg, "critical"}, status \in {NoArg, "open"},
          model_id \in {NoArg, "m1"} :
        /\ call' = [method |-> "get_incidents", severity |-> severity,
                    status |-> status, model_id |-> model_id]
        /\ result' = get_incidents(incidents, severity, status, model_id)
    /\ UNCHANGED trackerVars
    /\ TrackerFrame

\* generate_report reads the clock for end_date
GenerateReport ==
    /\ call = Idle
    /\ \E model_id \in {NoArg, "m1"}, t \in Now(clock) :
        /\ call' = [method |-> "generate_report", model_id |-> model_id]
        /\ result' = generate_report(decisions, incidents, model_id, Datetime(t))
        /\ clock' = t
    /\ UNCHANGED <<decisions, incidents, log_files, issued>>
    /\ TrackerFrame

NextTracker ==
    \/ LogDecision
    \/ LogIncident
    \/ GetAuditTrail
    \/ GetIncidents
    \/ GenerateReport
    \/ Return

SpecTracker == InitTracker /\ [][NextTracker]_vars

\* a tracker and a BiasDetector side by side; every call falls into the
\* last microsecond of the clock
InitAudit ==
    /\ y_true = <<>>
    /\ y_pred = <<>>
    /\ protected_attributes = <<>>
    /\ data = DataFrame(1, [gender |-> <<"A">>])
    /\ bias_reports = <<>>
    /\ threads = NoThreads
    /\ NewTracker
    /\ clock = MaxClock
    /\ call = Idle
    /\ result = Pending

NextAudit ==
    \/ LogDecision
    \/ LogIncident
    \/ GetAuditTrail
    \/ GetIncidents
    \/ GenerateReport
    \/ Analyze
    \/ Return

SpecAudit == InitAudit /\ [][NextAudit]_vars

-----------------------------------------------------------------------------
(* Properties *)

\* the attribute vector the last calculator call was given
CalledAttr == protected_attributes[call.attr].values

Calculators == MetricNames

\* the last call was method m and it returned a result
Returned(m) == call.method = m /\ ~IsError(result)

\* the samples of one group, straight from the attribute vector
GroupIndices(attr, g) == {i \in 1..Len(attr) : attr[i] = g}

RECURSIVE SumOver(_, _)
SumOver(vec, I) ==
    IF I = {} THEN Zero
    ELSE LET i == CHOOSE j \in I : TRUE
         IN  RatAdd(vec[i], SumOver(vec, I \ {i}))

\* mean of vec over the samples of group g
GroupMean(vec, attr, g) ==
    RatDiv(SumOver(vec, GroupIndices(attr, g)),
           Rat(Cardinality(GroupIndices(attr, g)), 1))

\* max minus min of a non-empty set of rates
Spread(S) == RatSub(RatMax(S), RatMin(S))

InUnitInterval(r) == RatLeq(Zero, r) /\ RatLeq(r, One)

\* C1: demographic_parity reports violation = max group positive rate minus
\* min group positive rate, and is_fair is true exactly when that violation
\* is strictly below 0.05; a violation of exactly 0.05 is not fair.
C1_ParityVerdictStrict ==
    Returned("demographic_parity") =>
        LET rates == {GroupMean(y_pred, CalledAttr, g) : g \in unique(CalledAttr)}
        IN  /\ result.violation = Spread(rates)
            /\ result.is_fair <=> RatLess(Spread(rates), Threshold)
            /\ Spread(rates) = Threshold => ~result.is_fair

\* C1 witness: a returned demographic parity whose violation is exactly 0.05
C1_Witness ==
    /\ Returned("demographic_parity")
    /\ result.violation = Threshold
    /\ ~result.is_fair

\* C2: on every non-empty aligned binary input equalized_odds and
\* equal_opportunity return a result, in which a group without positives has
\* TPR 0 and a group without negatives has FPR 0.
C2_TotalOnBinaryInput ==
    (call.method \in {"equalized_odds", "equal_opportunity"}
        /\ Len(CalledAttr) > 0) =>
        /\ ~IsError(result)
        /\ \A g \in unique(CalledAttr) :
            LET I == GroupIndices(CalledAttr, g)
                noPositives == \A i \in I : y_true[i] = Zero
                noNegatives == \A i \in I : y_true[i] = One
            IN  /\ call.method = "equal_opportunity" /\ noPositives
                    => result.tprs[g] = Zero
                /\ call.method = "equalized_odds" /\ noPositives
                    => result.group_metrics[g].tpr = Zero
                /\ call.method = "equalized_odds" /\ noNegatives
                    => result.group_metrics[g].fpr = Zero

\* C3: every reported violation is max minus min of the reported per-group
\* rates, is never negative, and is 0 when all groups have the same rate
\* (a single group included).
C3_ViolationIsSpread ==
    /\ Returned("demographic_parity") =>
        LET rates == Values(result.positive_rates)
        IN  /\ result.violation = Spread(rates)
            /\ RatLeq(Zero, result.violation)
            /\ Cardinality(rates) = 1 => result.violation = Zero
    /\ Returned("equal_opportunity") =>
        LET rates == Values(result.tprs)
        IN  /\ result.violation = Spread(rates)
            /\ RatLeq(Zero, result.violation)
            /\ Cardinality(rates) = 1 => result.violation = Zero
    /\ Returned("equalized_odds") =>
        LET tprs == {result.group_metrics[g].tpr : g \in DOMAIN result.group_metrics}
            fprs == {result.group_metrics[g].fpr : g \in DOMAIN result.group_metrics}
        IN  /\ result.tpr_violation = Spread(tprs)
            /\ result.fpr_violation = Spread(fprs)
            /\ RatLeq(Zero, result.tpr_violation)
            /\ RatLeq(Zero, result.fpr_violation)
            /\ Cardinality(tprs) = 1 => result.tpr_violation = Zero
            /\ Cardinality(fprs) = 1 => result.fpr_violation = Zero

\* C3 witness: equal_opportunity returned for two groups with different TPRs
C3_Witness ==
    /\ Returned("equal_opportunity")
    /\ Cardinality(Values(result.tprs)) = 2
    /\ RatLess(Zero, result.violation)

\* the inputs are binary: every true and predicted label is 0 or 1
BinaryInput ==
    /\ \A i \in 1..Len(y_true) : y_true[i] \in BinaryLabels
    /\ \A i \in 1..Len(y_pred) : y_pred[i] \in BinaryLabels

\* number of samples of group g with true label t and predicted label p
GroupCount(attr, g, t, p) ==
    Cardinality({i \in GroupIndices(attr, g) : y_true[i] = t /\ y_pred[i] = p})

\* C4: on valid (aligned, non-empty, binary) input every per-group rate a
\* calculator returns lies in [0, 1].
C4_RatesInUnitInterval ==
    BinaryInput =>
        /\ Returned("demographic_parity") =>
            \A g \in DOMAIN result.positive_rates :
                InUnitInterval(result.positive_rates[g])
        /\ Returned("equalized_odds") =>
            \A g \in DOMAIN result.group_metrics :
                /\ InUnitInterval(result.group_metrics[g].tpr)
                /\ InUnitInterval(result.group_metrics[g].fpr)
        /\ Returned("equal_opportunity") =>
            \A g \in DOMAIN result.tprs : InUnitInterval(result.tprs[g])

\* C4 witness: equalized_odds returned a group with two false positives and
\* one true negative (FPR 2/3)
C4_Witness ==
    /\ BinaryInput
    /\ Returned("equalized_odds")
    /\ \E g \in DOMAIN result.group_metrics :
        /\ result.group_metrics[g].fp = 2
        /\ result.group_metrics[g].tn = 1
        /\ result.group_metrics[g].fpr = Rat(2, 3)

\* the sum of f[x] over the elements x of S
RECURSIVE IntSum(_, _)
IntSum(f, S) ==
    IF S = {} THEN 0
    ELSE LET x == CHOOSE y \in S : TRUE
         IN  f[x] + IntSum(f, S \ {x})

\* C5: the groups of a calculator partition the samples: every sample index
\* is selected by the mask of exactly one group, no group is empty, and the
\* group sizes sum to N (so do the confusion counts equalized_odds reports).
C5_GroupsPartitionSamples ==
    call.method \in Calculators =>
        LET attr == CalledAttr
            groups == unique(attr)
            selected(g) == {i \in 1..Len(attr) : group_mask(attr, g)[i]}
        IN  /\ \A i \in 1..Len(attr) :
                Cardinality({g \in groups : i \in selected(g)}) = 1
            /\ \A g \in groups : selected(g) # {}
            /\ \A g \in groups :
                Len(BoolIndex(attr, group_mask(attr, g))) = Cardinality(selected(g))
            /\ Returned("demographic_parity") => DOMAIN result.positive_rates = groups
            /\ IntSum([g \in groups |-> Cardinality(selected(g))], groups) = Len(attr)
            /\ Returned("equalized_odds") =>
                IntSum([g \in groups |->
                           LET m == result.group_metrics[g]
                           IN  m.tn + m.fp + m.fn + m.tp], groups) = Len(attr)

\* C5 witness: a calculator returned for three samples in two groups
C5_Witness ==
    /\ Returned("equalized_odds")
    /\ Len(CalledAttr) = 3
    /\ Cardinality(unique(CalledAttr)) = 2

\* C6: for each group of a binary input, equalized_odds reports tn, fp, fn,
\* tp as the numbers of the group's samples with (true, predicted) = (0,0),
\* (0,1), (1,0), (1,1), and the four sum to the group's size.
C6_ConfusionCounts ==
    (BinaryInput /\ Returned("equalized_odds")) =>
        \A g \in DOMAIN result.group_metrics :
            LET m == result.group_metrics[g]
            IN  /\ m.tn = GroupCount(CalledAttr, g, Zero, Zero)
                /\ m.fp = GroupCount(CalledAttr, g, Zero, One)
                /\ m.fn = GroupCount(CalledAttr, g, One, Zero)
                /\ m.tp = GroupCount(CalledAttr, g, One, One)
                /\ m.tn + m.fp + m.fn + m.tp =
                       Cardinality(GroupIndices(CalledAttr, g))

\* C6 witness: a group with a false positive and no false negative
C6_Witness ==
    /\ BinaryInput
    /\ Returned("equalized_odds")
    /\ \E g \in DOMAIN result.group_metrics :
        /\ result.group_metrics[g].fp = 1
        /\ result.group_metrics[g].fn = 0
        /\ result.group_metrics[g].tp = 1

\* C7: equalized_odds and equal_opportunity raise whenever a true or a
\* predicted label is outside {0, 1}; no result is computed from such labels.
C7_NonBinaryRejected ==
    (call.method \in {"equalized_odds", "equal_opportunity"} /\ ~BinaryInput)
        => IsError(result)

\* the vectors a method reads are not all as long as the attribute vector
Misaligned ==
    CASE call.method = "demographic_parity" -> Len(y_pred) # Len(CalledAttr)
      [] call.method \in {"equalized_odds", "equal_opportunity", "calibration"} ->
            Len(y_true) # Len(CalledAttr) \/ Len(y_pred) # Len(CalledAttr)
      [] call.method = "evaluate" ->
            \E k \in 1..Len(protected_attributes) :
                \/ Len(y_true) # Len(protected_attributes[k].values)
                \/ Len(y_pred) # Len(protected_attributes[k].values)
      [] OTHER -> FALSE

\* C8: every calculator and evaluate raise when the label/prediction vectors
\* and the protected-attribute vector differ in length; no result is returned.
C8_MisalignedRejected ==
    Misaligned => IsError(result)

\* C9: every calculator raises when the protected-attribute vector is empty.
C9_EmptyRejected ==
    (call.method \in Calculators /\ Len(CalledAttr) = 0)
        => result = Raise("ValueError")

\* C9 witness: calibration was called with an empty attribute vector and
\* non-empty labels, and raised
C9_Witness ==
    /\ call.method = "calibration"
    /\ Len(CalledAttr) = 0
    /\ Len(y_true) > 0
    /\ IsError(result)

\* TPR and FPR of group g counted from the input vectors
InputTpr(attr, g) ==
    LET tp == GroupCount(attr, g, One, One)
        fn == GroupCount(attr, g, One, Zero)
    IN  IF tp + fn > 0 THEN Rat(tp, tp + fn) ELSE Zero

InputFpr(attr, g) ==
    LET fp == GroupCount(attr, g, Zero, One)
        tn == GroupCount(attr, g, Zero, Zero)
    IN  IF fp + tn > 0 THEN Rat(fp, fp + tn) ELSE Zero

\* C10: equalized_odds reports tpr_violation = max - min group TPR and
\* fpr_violation = max - min group FPR, and is_fair is true exactly when both
\* are strictly below 0.05.
C10_EqualizedOddsVerdict ==
    (BinaryInput /\ Returned("equalized_odds")) =>
        LET groups == unique(CalledAttr)
            tprs == {InputTpr(CalledAttr, g) : g \in groups}
            fprs == {InputFpr(CalledAttr, g) : g \in groups}
        IN  /\ result.tpr_violation = Spread(tprs)
            /\ result.fpr_violation = Spread(fprs)
            /\ result.is_fair <=> /\ RatLess(result.tpr_violation, Threshold)
                                  /\ RatLess(result.fpr_violation, Threshold)

\* C10 witness: the TPRs agree, the FPRs do not, and the verdict is unfair
C10_Witness ==
    /\ Returned("equalized_odds")
    /\ result.tpr_violation = Zero
    /\ result.fpr_violation = One
    /\ ~result.is_fair

\* C11: when the predictions equal the true labels and every group has a
\* positive true label, equal_opportunity returns TPR 1 for every group,
\* violation 0 and is_fair = True.
C11_PerfectPredictionsFair ==
    (call.method = "equal_opportunity"
        /\ BinaryInput
        /\ Len(CalledAttr) > 0
        /\ y_pred = y_true
        /\ \A g \in unique(CalledAttr) :
              \E i \in GroupIndices(CalledAttr, g) : y_true[i] = One) =>
        /\ ~IsError(result)
        /\ \A g \in unique(CalledAttr) : result.tprs[g] = One
        /\ result.violation = Zero
        /\ result.is_fair

\* C12: the positive rate demographic_parity reports for a group is the
\* number of the group's samples predicted 1 divided by the group's size.
C12_PositiveRateIsIndicatorMean ==
    Returned("demographic_parity") =>
        \A g \in DOMAIN result.positive_rates :
            result.positive_rates[g] =
                Rat(Cardinality({i \in GroupIndices(CalledAttr, g) : y_pred[i] = One}),
                    Cardinality(GroupIndices(CalledAttr, g)))

\* C13: parity_ratio is max group positive rate over min group positive
\* rate, infinity when the min rate is 0, whatever the verdict; when every
\* group's rate is 0 the ratio is infinity, the violation 0 and is_fair True.
C13_ParityRatio ==
    Returned("demographic_parity") =>
        LET rates == {GroupMean(y_pred, CalledAttr, g) : g \in unique(CalledAttr)}
        IN  /\ result.parity_ratio =
                  IF RatMin(rates) = Zero THEN Infinity
                  ELSE RatDiv(RatMax(rates), RatMin(rates))
            /\ rates = {Zero} =>
                  /\ result.parity_ratio = Infinity
                  /\ result.violation = Zero
                  /\ result.is_fair

\* C13 witness: two groups, both with positive rate 0
C13_Witness ==
    /\ Returned("demographic_parity")
    /\ Cardinality(DOMAIN result.positive_rates) = 2
    /\ \A g \in DOMAIN result.positive_rates : result.positive_rates[g] = Zero
    /\ result.parity_ratio = Infinity
    /\ result.is_fair

\* C14: calibration reports per group the mean predicted probability, the
\* mean true label and their absolute difference; max_calibration_error is
\* the largest group error and is_calibrated holds exactly when it is
\* strictly below 0.05.
C14_Calibration ==
    Returned("calibration") =>
        LET groups == unique(CalledAttr)
            err(g) == RatAbs(RatSub(GroupMean(y_pred, CalledAttr, g),
                                    GroupMean(y_true, CalledAttr, g)))
        IN  /\ DOMAIN result.group_calibration = groups
            /\ \A g \in groups :
                /\ result.group_calibration[g].expected_positive_rate =
                       GroupMean(y_pred, CalledAttr, g)
                /\ result.group_calibration[g].actual_positive_rate =
                       GroupMean(y_true, CalledAttr, g)
                /\ result.group_calibration[g].calibration_error = err(g)
            /\ result.max_calibration_error = RatMax({err(g) : g \in groups})
            /\ result.is_calibrated <=>
                   RatLess(result.max_calibration_error, Threshold)

\* C14 witness: the largest group error is exactly 0.05 and the verdict is
\* not calibrated
C14_Witness ==
    /\ Returned("calibration")
    /\ result.max_calibration_error = Threshold
    /\ ~result.is_calibrated

\* C15: the mapping evaluate returns has exactly one entry per supplied
\* attribute; every entry's keys are exactly the requested metric names (all
\* four when metrics is omitted) and every value is what the calculator of
\* that name returns for the same labels, predictions and attribute vector;
\* evaluate raises exactly when one of those calculator calls raises.
C15_EvaluateAggregates ==
    /\ call.method = "evaluate" =>
        (IsError(result) <=>
            \E k \in DOMAIN protected_attributes :
                \E m \in (IF call.metrics = None THEN Calculators
                                               ELSE call.metrics) :
                    IsError(Calculate(m, y_true, y_pred,
                                      protected_attributes[k].values)))
    /\ Returned("evaluate") =>
        /\ DOMAIN result.results =
               {protected_attributes[k].name : k \in DOMAIN protected_attributes}
        /\ \A k \in DOMAIN protected_attributes :
            LET entry == result.results[protected_attributes[k].name]
                values == protected_attributes[k].values
            IN  /\ DOMAIN entry =
                       IF call.metrics = None THEN Calculators ELSE call.metrics
                /\ "demographic_parity" \in DOMAIN entry =>
                       entry["demographic_parity"] =
                           demographic_parity(y_pred, values)
                /\ "equalized_odds" \in DOMAIN entry =>
                       entry["equalized_odds"] =
                           equalized_odds(y_true, y_pred, values)
                /\ "equal_opportunity" \in DOMAIN entry =>
                       entry["equal_opportunity"] =
                           equal_opportunity(y_true, y_pred, values)
                /\ "calibration" \in DOMAIN entry =>
                       entry["calibration"] = calibration(y_true, y_pred, values)

\* C15 witness: two attributes with different vectors, metrics omitted, and
\* a mapping with the four results for each of them
C15_Witness ==
    /\ Returned("evaluate")
    /\ call.metrics = None
    /\ Len(protected_attributes) = 2
    /\ protected_attributes[1].values # protected_attributes[2].values
    /\ DOMAIN result.results = {"gender", "race"}
    /\ \A name \in DOMAIN result.results :
           DOMAIN result.results[name] = Calculators
    /\ result.results["gender"] # result.results["race"]

-----------------------------------------------------------------------------
(* Properties of BiasDetector.analyze *)

\* analyze returned a report
Reported == call.method = "analyze" /\ ~IsError(result)

\* the rows of a column holding the value v
RowsOf(column, v) == {i \in 1..Len(column) : column[i] = v}

\* the group values of a column: its values that are not missing
GroupsOf(column) == Range(column) \ {NA}

\* the share of the rows of a column that hold the value v
Share(column, v) == Rat(Cardinality(RowsOf(column, v)), Len(column))

\* C16: for every analysed attribute, representation_bias.disparity_ratio
\* is the largest group proportion over the smallest (infinity if the
\* smallest is 0) and is_balanced holds exactly when disparity_ratio is
\* strictly below 1.5.
C16_RepresentationBias ==
    Reported =>
        \A a \in DOMAIN result.bias_metrics :
            LET column == data.columns[a]
                shares == {Share(column, v) : v \in GroupsOf(column)}
                bias == result.bias_metrics[a].representation_bias
            IN  /\ shares # {} =>
                    bias.disparity_ratio =
                        IF RatMin(shares) = Zero THEN Infinity
                        ELSE RatDiv(RatMax(shares), RatMin(shares))
                /\ bias.is_balanced <=> RatLess(bias.disparity_ratio, RatioLimit)

\* C16 witness: groups of 4 rows and 1 row, ratio 4, not balanced
C16_Witness ==
    /\ Reported
    /\ "gender" \in DOMAIN result.bias_metrics
    /\ Cardinality(RowsOf(data.columns["gender"], "A")) = 4
    /\ Cardinality(RowsOf(data.columns["gender"], "B")) = 1
    /\ result.bias_metrics["gender"].representation_bias.disparity_ratio = Rat(4, 1)
    /\ ~result.bias_metrics["gender"].representation_bias.is_balanced

\* the injective renamings of the group values
Renamings ==
    {r \in [AttrValues -> AttrValues \cup {"C"}] :
        \A v, w \in AttrValues : r[v] = r[w] => v = w}

\* the DataFrame with the group values of one attribute renamed
Renamed(frame, a, r) ==
    [frame EXCEPT !.columns[a] =
        [i \in 1..Len(@) |-> IF @[i] = NA THEN NA ELSE r[@[i]]]]

\* C17: analysing the dataset with an attribute's group values renamed
\* injectively gives the same representation disparity_ratio and the same
\* is_balanced for that attribute.
C17_RenamingInvariant ==
    Reported =>
        \A a \in DOMAIN result.bias_metrics : \A r \in Renamings :
            LET bias == result.bias_metrics[a].representation_bias
                other == analyze(Renamed(data, a, r), call.protected_attributes,
                                 call.target_column).bias_metrics[a].representation_bias
            IN  /\ other.disparity_ratio = bias.disparity_ratio
                /\ other.is_balanced = bias.is_balanced

\* C17 witness: two groups of different sizes whose names are exchanged
C17_Witness ==
    /\ Reported
    /\ "gender" \in DOMAIN result.bias_metrics
    /\ LET counts == result.bias_metrics["gender"].group_counts
           swap == [v \in AttrValues |-> IF v = "A" THEN "B" ELSE "A"]
           other == analyze(Renamed(data, "gender", swap), call.protected_attributes,
                            call.target_column).bias_metrics["gender"]
       IN  /\ DOMAIN counts = AttrValues
           /\ counts["A"] > counts["B"]
           /\ other.group_counts["B"] = counts["A"]
           /\ other.group_counts["A"] = counts["B"]
           /\ other.representation_bias.disparity_ratio # One

\* C18: for every attribute of a report the group_counts sum to
\* dataset_size and, for a dataset with rows, the group_distribution sums
\* to 1: every row is counted in exactly one group.
C18_CountsCoverDataset ==
    Reported =>
        \A a \in DOMAIN result.bias_metrics :
            LET analysis == result.bias_metrics[a]
            IN  /\ IntSum(analysis.group_counts, DOMAIN analysis.group_counts)
                       = result.dataset_size
                /\ result.dataset_size > 0 =>
                       SumOver(analysis.group_distribution,
                               DOMAIN analysis.group_distribution) = One

\* C19: with a binary target column, label_bias holds every group's
\* positive rate, and disparity.disparity_ratio is the largest group rate
\* over the smallest, infinity if the smallest is 0.
C19_LabelDisparity ==
    (Reported /\ call.target_column \in DOMAIN data.columns) =>
        \A a \in DOMAIN result.bias_metrics :
            LET column == data.columns[a]
                target == data.columns[call.target_column]
                rate(g) == Rat(Cardinality({i \in RowsOf(column, g) : target[i] = 1}),
                               Cardinality(RowsOf(column, g)))
                rates == {rate(g) : g \in GroupsOf(column)}
                label_bias == result.bias_metrics[a].label_bias
            IN  /\ \A g \in GroupsOf(column) : label_bias[g].positive_rate = rate(g)
                /\ rates # {} =>
                    /\ "disparity" \in DOMAIN label_bias
                    /\ label_bias["disparity"].disparity_ratio =
                           IF RatMin(rates) = Zero THEN Infinity
                           ELSE RatDiv(RatMax(rates), RatMin(rates))

\* C20: analyze raises the not-found error when a requested attribute is
\* not a column and the invalid-input error when the list is empty, and in
\* neither case a report is returned or kept.
C20_AnalyzeRejects ==
    /\ (call.method = "analyze" /\ data.type = "DataFrame") =>
        /\ call.protected_attributes = <<>> =>
               result = RaiseMessage("ValueError",
                                     "protected_attributes cannot be empty")
        /\ (\E k \in 1..Len(call.protected_attributes) :
                call.protected_attributes[k] \notin DOMAIN data.columns) =>
               result = RaiseMessage("ValueError",
                                     "Protected attribute not found in dataset")
    /\ \A j \in 1..Len(bias_reports) :
        /\ bias_reports[j].protected_attributes # <<>>
        /\ Range(bias_reports[j].protected_attributes) \subseteq DOMAIN data.columns

\* C20 witness: an earlier report is kept, and the call that names a column
\* and a missing attribute ends in the not-found error
C20_Witness ==
    /\ call.method = "analyze"
    /\ call.protected_attributes = <<"gender", "race">>
    /\ IsError(result)
    /\ result.message = "Protected attribute not found in dataset"
    /\ Len(bias_reports) = 1

\* the representation disparity ratio of a column, from its rows
ColumnRatio(column) ==
    LET shares == {Share(column, v) : v \in GroupsOf(column)}
    IN  IF shares = {} THEN Infinity
        ELSE RatDiv(RatMax(shares), RatMin(shares))

\* the report holds a label disparity ratio above 1.5 for the attribute
LabelRatioAbove(metrics) ==
    /\ "label_bias" \in DOMAIN metrics
    /\ "disparity" \in DOMAIN metrics.label_bias
    /\ RatLess(RatioLimit, metrics.label_bias["disparity"].disparity_ratio)

\* C21: the rebalancing message of an attribute is in the recommendations
\* exactly when its representation disparity ratio is above 2.0 (infinity
\* included), its label-review message exactly when its label disparity
\* ratio is above 1.5.
C21_RecommendationRules ==
    Reported =>
        \A a \in DOMAIN result.bias_metrics :
            /\ RepresentationMessage(a) \in Range(result.recommendations)
                   <=> RatLess(Two, ColumnRatio(data.columns[a]))
            /\ LabelMessage(a) \in Range(result.recommendations)
                   <=> LabelRatioAbove(result.bias_metrics[a])

\* C21 witness: groups of 3 rows and 1 row with different positive rates,
\* both messages
C21_Witness ==
    /\ Reported
    /\ call.target_column = "target"
    /\ ColumnRatio(data.columns["gender"]) = Rat(3, 1)
    /\ result.recommendations =
           <<RepresentationMessage("gender"), LabelMessage("gender")>>

\* the place of the first occurrence of a name in a list
FirstIndex(names, a) == First({k \in 1..Len(names) : names[k] = a})

\* the rank of a message within its attribute: representation, then label
RuleRank(message) ==
    IF message.text = RepresentationMessage(message.attr).text THEN 1 ELSE 2

\* C22: matched messages come in the order in which the attributes were
\* requested, the representation message of an attribute before its label
\* message; the default message is there exactly when no rule matched and
\* is then the only element; the list is never empty.
C22_RecommendationOrder ==
    Reported =>
        LET recs == result.recommendations
            requested == call.protected_attributes
            matched == \E a \in DOMAIN result.bias_metrics :
                           \/ RatLess(Two, ColumnRatio(data.columns[a]))
                           \/ LabelRatioAbove(result.bias_metrics[a])
        IN  /\ recs # <<>>
            /\ NoBiasMessage \in Range(recs) <=> ~matched
            /\ NoBiasMessage \in Range(recs) => recs = <<NoBiasMessage>>
            /\ matched =>
                \A i, j \in 1..Len(recs) : i < j =>
                    \/ FirstIndex(requested, recs[i].attr)
                           < FirstIndex(requested, recs[j].attr)
                    \/ /\ recs[i].attr = recs[j].attr
                       /\ RuleRank(recs[i]) < RuleRank(recs[j])

\* C22 witness: race requested before gender, a message for each
C22_Witness ==
    /\ Reported
    /\ call.protected_attributes = <<"race", "gender">>
    /\ data.index = 1
    /\ result.recommendations =
           <<RepresentationMessage("race"), RepresentationMessage("gender")>>

\* C23: detect_model_bias raises an error when a requested protected
\* attribute is not a column of X.
C23_ModelBiasRejects ==
    (/\ call.method = "detect_model_bias"
     /\ \E k \in 1..Len(call.protected_attributes) :
            call.protected_attributes[k] \notin DOMAIN data.columns) =>
        IsError(result)

-----------------------------------------------------------------------------
(* Properties of concurrent invocations *)

\* what the invocation in the frame of thread t returns when it runs alone
Alone(t) ==
    IF threads[t].method = "evaluate"
    THEN evaluate(y_true, y_pred, protected_attributes, threads[t].metrics)
    ELSE LET values == protected_attributes[threads[t].attr].values
         IN  CASE threads[t].method = "demographic_parity" ->
                      demographic_parity(y_pred, values)
               [] threads[t].method = "equalized_odds" ->
                      equalized_odds(y_true, y_pred, values)
               [] threads[t].method = "equal_opportunity" ->
                      equal_opportunity(y_true, y_pred, values)
               [] threads[t].method = "calibration" ->
                      calibration(y_true, y_pred, values)

\* every finished invocation has the outcome it has when run alone
SameAsAlone ==
    \A t \in Threads : threads[t].pc = "done" => threads[t].outcome = Alone(t)

\* no step changes the input vectors
InputsKept ==
    /\ y_true' = y_true
    /\ y_pred' = y_pred
    /\ protected_attributes' = protected_attributes

\* C24: the calculators and evaluate are pure: no step of an invocation
\* changes the input vectors, and under every interleaving of concurrent
\* invocations over the shared inputs each invocation returns what it
\* returns when run alone.
C24_PureUnderInterleaving == [](SameAsAlone) /\ [][InputsKept]_vars

\* C24 witness: one thread is between two iterations of its loop while the
\* other has finished an evaluate with other metrics and holds its mapping
C24_Witness ==
    /\ Len(protected_attributes) = 2
    /\ threads[1].pc = "loop"
    /\ threads[1].k = 2
    /\ threads[2].pc = "done"
    /\ threads[2].method = "evaluate"
    /\ threads[2].metrics # threads[1].metrics
    /\ ~IsError(threads[2].outcome)
    /\ DOMAIN threads[2].outcome.results = {"gender", "race"}

-----------------------------------------------------------------------------
(* Properties of the AccountabilityTracker *)

IsPrefix(s, t) == Len(s) <= Len(t) /\ SubSeq(t, 1, Len(s)) = s

QueryMethods == {"get_audit_trail", "get_incidents", "generate_report"}

\* every step keeps what the three lists held as a prefix
AppendOnly ==
    /\ IsPrefix(decisions, decisions')
    /\ IsPrefix(incidents, incidents')
    /\ IsPrefix(bias_reports, bias_reports')

\* a step that is a query call leaves the three lists as they were
QueriesKeep ==
    call'.method \in QueryMethods =>
        UNCHANGED <<decisions, incidents, bias_reports>>

\* C25: decisions, incidents and bias_reports are append-only: every step of
\* log_decision, log_incident, get_audit_trail, get_incidents,
\* generate_report and analyze leaves the earlier content of each list as a
\* prefix of the later content, and the three query operations leave the
\* lists unchanged.
C25_AppendOnly == [][AppendOnly /\ QueriesKeep]_vars

\* a report generated over one decision and one incident, with one bias
\* report in the history
C25_Witness ==
    /\ call.method = "generate_report"
    /\ Len(decisions) = 1
    /\ Len(incidents) = 1
    /\ Len(bias_reports) = 1

\* the time a decision carries in its timestamp field
TimeOf(d) == fromisoformat(d.timestamp).tick

\* a decision passes the filters that were given (an argument is given when
\* it is not None)
Passes(d, model_id, start_date, end_date) ==
    /\ model_id # NoArg => d.model_id = model_id
    /\ start_date # PyNone => TimeOf(d) >= start_date.tick
    /\ end_date # PyNone => TimeOf(d) <= end_date.tick

\* C26: get_audit_trail returns exactly the logged decisions that satisfy
\* every supplied filter (model_id equal, timestamp >= start_date,
\* timestamp <= end_date, bounds inclusive), in the order they were logged;
\* all decisions when no filter is supplied, and none when the supplied
\* model_id matches no decision.
C26_AuditTrailFilters ==
    call.method = "get_audit_trail" =>
        /\ result.type = "DataFrame"
        /\ result.records =
               SelectSeq(decisions,
                   LAMBDA d : Passes(d, call.model_id, call.start_date,
                                     call.end_date))

-----------------------------------------------------------------------------
(* Properties of the report history of BiasDetector *)

\* a step that is a call of analyze: a call that raises keeps bias_reports,
\* a call that returns a report makes it one longer, the report last
AnalyzeStores ==
    call'.method = "analyze" =>
        IF IsError(result')
        THEN bias_reports' = bias_reports
        ELSE /\ Len(bias_reports') = Len(bias_reports) + 1
             /\ SubSeq(bias_reports', 1, Len(bias_reports)) = bias_reports
             /\ bias_reports'[Len(bias_reports')] = result'

\* a step that is no call of analyze keeps bias_reports
OnlyAnalyzeStores ==
    call'.method # "analyze" => bias_reports' = bias_reports

\* the report a call has returned is the last element of bias_reports
ReturnedIsLast ==
    Reported =>
        /\ bias_reports # <<>>
        /\ bias_reports[Len(bias_reports)] = result

\* C27: a call of analyze that raises (data not a DataFrame, empty attribute
\* list, or an attribute missing anywhere in the list) leaves bias_reports
\* unchanged; a call that returns a report appends exactly that report, so
\* the length of bias_reports counts the calls that returned, and the
\* returned report is the last element when it is returned.
C27_RaisingAnalyzeKeepsReports ==
    [](ReturnedIsLast) /\ [][AnalyzeStores /\ OnlyAnalyzeStores]_vars

\* a call that raises at the second attribute, after the first one was
\* analysed, with the report of an earlier call still the whole history
C27_Witness ==
    /\ call.method = "analyze"
    /\ call.protected_attributes = <<"gender", "race">>
    /\ data.type = "DataFrame"
    /\ "gender" \in DOMAIN data.columns
    /\ "race" \notin DOMAIN data.columns
    /\ IsError(result)
    /\ Len(bias_reports) = 1
    /\ bias_reports[1].protected_attributes = <<"gender">>

-----------------------------------------------------------------------------
(* Properties of the log of the AccountabilityTracker *)

\* json.loads of each line of a log file, in the order of the file
Persisted(lines) == [i \in 1..Len(lines) |-> lines[i].json]

\* the ids that calls of one kind have returned, in the order of the calls
IssuedOf(kind) == SelectSeq(issued, LAMBDA id : id.prefix = kind)

\* C28: after every sequence of log_decision and log_incident calls, failed
\* writes included, the in-memory decisions and incidents are exactly the
\* records persisted to the log, in the same order, and exactly the records
\* whose id was returned to a caller; a failed call adds no record in memory.
C28_MemoryMatchesLog ==
    /\ decisions = Persisted(log_files.decisions)
    /\ incidents = Persisted(log_files.incidents)
    /\ [i \in 1..Len(decisions) |-> decisions[i].decision_id]
           = IssuedOf("decision")
    /\ [i \in 1..Len(incidents) |-> incidents[i].incident_id]
           = IssuedOf("incident")

\* the ids in a sequence are pairwise distinct
Distinct(ids) ==
    \A i, j \in 1..Len(ids) : i # j => ids[i] # ids[j]

\* C29: the ids returned by distinct log_decision calls on one tracker are
\* pairwise distinct, and so are the ids returned by distinct log_incident
\* calls, calls within one tick of the clock included.
C29_IdsDistinct ==
    /\ Distinct(IssuedOf("decision"))
    /\ Distinct(IssuedOf("incident"))

====
